---- MODULE Spec2Model ----
(***************************************************************************)
(* Model of airflow_call_bq_sp.py: a workflow-definition script that       *)
(* formats a BigQuery CALL statement by string interpolation and registers *)
(* one BigQueryExecuteQueryOperator task in one DAG.                       *)
(*                                                                         *)
(* Text is modelled character by character: a Python str is a sequence of  *)
(* one-character strings, so that quoting, joining and the layout of the   *)
(* statement are computed, not assumed.  The script runs top to bottom     *)
(* once (one definition load); pc names the statement about to run.        *)
(***************************************************************************)
EXTENDS Integers, Sequences, FiniteSets, TLC

VARIABLES
    GCP_PROJECT_ID,         \* line 10
    BQ_LOCATION,            \* line 12
    SP_DATASET,             \* line 15
    SP_NAME,                \* line 16
    TARGET_TABLE,           \* line 19
    SOURCE_TABLE,           \* line 20
    KEY_COLUMNS,            \* line 21
    options,                \* the options value the caller wants; the script has no input for it
    key_columns_sql_array,  \* line 26
    sql_call_statement,     \* lines 32-40
    registry,               \* the workflows of the scheduler, each with its tasks
    dag_context,            \* the stack of DAGs whose with block is open
    error,                  \* the exception that ended the load, or none
    pc                      \* the statement of the script about to run

vars ==
    <<GCP_PROJECT_ID, BQ_LOCATION, SP_DATASET, SP_NAME, TARGET_TABLE, SOURCE_TABLE,
      KEY_COLUMNS, options, key_columns_sql_array, sql_call_statement, registry,
      dag_context, error, pc>>

config ==
    <<GCP_PROJECT_ID, BQ_LOCATION, SP_DATASET, SP_NAME, TARGET_TABLE, SOURCE_TABLE,
      KEY_COLUMNS, options>>

---------------------------------------------------------------------------
(* Bounds *)

\* The longest KEY_COLUMNS list tried.
MaxKeys == 2

---------------------------------------------------------------------------
(* Values *)

\* A name the script has not assigned yet.
Undefined == <<"<undefined>">>

\* The None of Python in the place of the KEY_COLUMNS list.
None == << <<"<None>">> >>

\* The single quote, which delimits the string literals of the statement.
QUOTE == "'"

\* The backtick (U+0060), which delimits the procedure identifier.  A TLA+
\* string cannot begin with that character, so it is written by name; a
\* character is only ever compared with another.
BACKTICK == "<backtick>"

NL == <<"\n">>

GCP_CONN_ID == "google_cloud_default"

DAG_ID == "bq_call_generic_merge_sp"

TASK_ID == "call_usp_generic_merge"

USE_LEGACY_SQL == FALSE

\* Configuration values tried for line 10 (the script asks for them to be replaced).
ProjectIds == { <<"p", "r", "o", "j">>, <<" ">>, <<"p", BACKTICK>> }

\* Line 12 and the regions its comment names.
Locations == { "US", "EU" }

\* Line 15.
Datasets == { <<"d", "s">>, <<>> }

\* Line 16.
ProcedureNames ==
    { <<"u", "s", "p", "_", "g", "e", "n", "e", "r", "i", "c", "_", "m", "e", "r", "g", "e">>,
      <<>> }

\* The table part of line 19.
TargetNames ==
    { <<"t", "a", "r", "g", "e", "t">>,
      <<"t", QUOTE, "x">>,
      <<"C", "A", "L", "L", BACKTICK, "[", "-", "-">> }

\* The table part of line 20.
SourceNames == { <<"s", "o", "u", "r", "c", "e">>, <<"s", QUOTE>> }

\* The column names a KEY_COLUMNS list of line 21 is drawn from.
ColumnNames ==
    { <<"i", "d">>,
      <<"r", "e", "g", "i", "o", "n">>,
      <<"c">>,
      <<"o", QUOTE, "k">>,
      <<"C", "A", "L", "L", BACKTICK, "]", "-", "-">> }

RECURSIVE ListsUpTo(_, _)
ListsUpTo(S, n) ==
    IF n = 0 THEN { <<>> }
    ELSE LET shorter == ListsUpTo(S, n - 1)
         IN  shorter \cup { Append(l, x) : l \in shorter, x \in S }

KeyColumnLists == ListsUpTo(ColumnNames, MaxKeys) \cup { None }

OptionsValues == { "absent", "empty_object" }

---------------------------------------------------------------------------
(* The statement builder, lines 19-40 *)

\* Lines 19-20: project, dataset and table name joined by dots.
QualifiedTable(project, dataset, table) ==
    project \o <<".">> \o dataset \o <<".">> \o table

\* Line 26, the element of the comprehension: col between single quotes.
Quoted(col) ==
    <<QUOTE>> \o col \o <<QUOTE>>

\* The concatenation of the parts.
RECURSIVE Flatten(_)
Flatten(parts) ==
    IF parts = <<>> THEN <<>> ELSE parts[1] \o Flatten(Tail(parts))

\* Line 26, str.join: the parts with sep between neighbours.
RECURSIVE Join(_, _)
Join(sep, parts) ==
    IF parts = <<>> THEN <<>>
    ELSE IF Len(parts) = 1 THEN parts[1]
    ELSE parts[1] \o sep \o Join(sep, Tail(parts))

\* Mutant of KeyColumnsSqlArray: a comma and a space after every element, the
\* last one too.
KeyColumnsSqlArray_TrailingComma(cols) ==
    <<"[">> \o Flatten([i \in 1..Len(cols) |-> Quoted(cols[i]) \o <<",", " ">>]) \o <<"]">>

\* Line 26: an opening bracket, the quoted columns joined by comma and space,
\* a closing bracket.
KeyColumnsSqlArray(cols) ==
    <<"[">> \o Join(<<",", " ">>, [i \in 1..Len(cols) |-> Quoted(cols[i])]) \o <<"]">>

Line33Head == <<"C", "A", "L", "L", " ", BACKTICK>>

Line33Tail == <<BACKTICK, "(">>

ArgHead == <<" ", " ", " ", " ", QUOTE>>

Indent == <<" ", " ", " ", " ">>

Line34Tail ==
    <<QUOTE, ",", " ", " ", " ", " ", " ", " ", " ", " ", " ", " ", "-", "-", " ",
      "t", "a", "r", "g", "e", "t", "_", "t", "a", "b", "l", "e", "_", "n", "a", "m", "e",
      " ", "S", "T", "R", "I", "N", "G">>

Line35Tail ==
    <<QUOTE, ",", " ", " ", " ", " ", " ", " ", " ", " ", " ", " ", "-", "-", " ",
      "s", "o", "u", "r", "c", "e", "_", "t", "a", "b", "l", "e", "_", "n", "a", "m", "e",
      " ", "S", "T", "R", "I", "N", "G">>

Line36Tail ==
    <<",", " ", " ", " ", "-", "-", " ", "k", "e", "y", "_", "c", "o", "l", "u", "m", "n", "s",
      " ", "A", "R", "R", "A", "Y", "<", "S", "T", "R", "I", "N", "G", ">">>

Line37 ==
    <<" ", " ", " ", " ", "N", "U", "L", "L",
      " ", " ", " ", " ", " ", " ", " ", " ", " ", " ", " ", " ", " ", " ", " ", " ",
      " ", " ", " ", " ", " ", " ", " ",
      "-", "-", " ", "o", "p", "t", "i", "o", "n", "s", " ", "J", "S", "O", "N", " ",
      "(", "u", "s", "i", "n", "g", " ", "N", "U", "L", "L", " ", "h", "e", "r", "e", ")">>

Line38 ==
    <<" ", " ", " ", " ", "-", "-", " ", "O", "r", " ", "u", "s", "e", " ", "a", "n", " ",
      "e", "m", "p", "t", "y", " ", "J", "S", "O", "N", " ", "o", "b", "j", "e", "c", "t", ":",
      " ", "P", "A", "R", "S", "E", "_", "J", "S", "O", "N", "(", QUOTE, "{", "}", QUOTE, ")">>

Line39 == <<")", ";">>

\* Mutant of SqlCallStatement: the source table before the target table.
SqlCallStatement_SwappedTables(project, dataset, name, target, source, array) ==
    NL
    \o Line33Head \o project \o <<".">> \o dataset \o <<".">> \o name \o Line33Tail \o NL
    \o ArgHead \o source \o Line34Tail \o NL
    \o ArgHead \o target \o Line35Tail \o NL
    \o Indent \o array \o Line36Tail \o NL
    \o Line37 \o NL
    \o Line38 \o NL
    \o Line39 \o NL

\* Mutant of SqlCallStatement: the procedure path without its backticks.
SqlCallStatement_NoBackticks(project, dataset, name, target, source, array) ==
    NL
    \o <<"C", "A", "L", "L", " ">> \o project \o <<".">> \o dataset \o <<".">> \o name
        \o <<"(">> \o NL
    \o ArgHead \o target \o Line34Tail \o NL
    \o ArgHead \o source \o Line35Tail \o NL
    \o Indent \o array \o Line36Tail \o NL
    \o Line37 \o NL
    \o Line38 \o NL
    \o Line39 \o NL

\* The f-string of lines 32-40; it opens and closes with a line break.
SqlCallStatement(project, dataset, name, target, source, array) ==
    NL
    \o Line33Head \o project \o <<".">> \o dataset \o <<".">> \o name \o Line33Tail \o NL
    \o ArgHead \o target \o Line34Tail \o NL
    \o ArgHead \o source \o Line35Tail \o NL
    \o Indent \o array \o Line36Tail \o NL
    \o Line37 \o NL
    \o Line38 \o NL
    \o Line39 \o NL

---------------------------------------------------------------------------
(* The task registrar, lines 53-69 *)

\* Lines 53-59: the DAG object, with no task yet.
NewDag == [dag_id |-> DAG_ID, tasks |-> <<>>]

IsWhitespace(c) == c \in { " ", "\n" }

\* The text without the white space at its two ends.
RECURSIVE StripWhitespace(_)
StripWhitespace(s) ==
    IF s = <<>> THEN s
    ELSE IF IsWhitespace(s[1]) THEN StripWhitespace(Tail(s))
    ELSE IF IsWhitespace(s[Len(s)]) THEN StripWhitespace(SubSeq(s, 1, Len(s) - 1))
    ELSE s

\* Mutant of NewOperator: the statement is stripped of its outer white space
\* on the way to the operator.
NewOperator_StrippedSql(sql, location) ==
    [task_id        |-> TASK_ID,
     sql            |-> StripWhitespace(sql),
     use_legacy_sql |-> USE_LEGACY_SQL,
     location       |-> location,
     gcp_conn_id    |-> GCP_CONN_ID]

\* Mutant of NewOperator: use_legacy_sql is left to the default of the
\* operator, which is the legacy dialect.
NewOperator_LegacyDefault(sql, location) ==
    [task_id        |-> TASK_ID,
     sql            |-> sql,
     use_legacy_sql |-> TRUE,
     location       |-> location,
     gcp_conn_id    |-> GCP_CONN_ID]

\* Lines 60-66: the keyword arguments of BigQueryExecuteQueryOperator.
NewOperator(sql, location) ==
    [task_id        |-> TASK_ID,
     sql            |-> sql,
     use_legacy_sql |-> USE_LEGACY_SQL,
     location       |-> location,
     gcp_conn_id    |-> GCP_CONN_ID]

\* Mutant of AddTask: the task is added twice.
AddTask_Twice(reg, ctx, task) ==
    [reg EXCEPT ![ctx[Len(ctx)]].tasks = Append(Append(@, task), task)]

\* The operator joins the DAG whose with block is innermost.
AddTask(reg, ctx, task) ==
    [reg EXCEPT ![ctx[Len(ctx)]].tasks = Append(@, task)]

---------------------------------------------------------------------------
(* The script, statement by statement *)

Init ==
    /\ GCP_PROJECT_ID \in ProjectIds
    /\ BQ_LOCATION \in Locations
    /\ SP_DATASET \in Datasets
    /\ SP_NAME \in ProcedureNames
    /\ \E t \in TargetNames : TARGET_TABLE = QualifiedTable(GCP_PROJECT_ID, SP_DATASET, t)
    /\ \E s \in SourceNames : SOURCE_TABLE = QualifiedTable(GCP_PROJECT_ID, SP_DATASET, s)
    /\ KEY_COLUMNS \in KeyColumnLists
    /\ options \in OptionsValues
    /\ key_columns_sql_array = Undefined
    /\ sql_call_statement = Undefined
    /\ registry = <<>>
    /\ dag_context = <<>>
    /\ error = "none"
    /\ pc = "format_keys"

\* Line 26, over a list.
FormatKeyColumns ==
    /\ pc = "format_keys"
    /\ KEY_COLUMNS # None
    /\ key_columns_sql_array' = KeyColumnsSqlArray(KEY_COLUMNS)
    /\ pc' = "build_sql"
    /\ UNCHANGED <<config, sql_call_statement, registry, dag_context, error>>

\* Mutant of FormatKeyColumnsRaises: the exception is caught, an empty array
\* stands in and the script goes on.
FormatKeyColumnsRaises_Swallowed ==
    /\ pc = "format_keys"
    /\ KEY_COLUMNS = None
    /\ error' = "TypeError"
    /\ key_columns_sql_array' = <<"[", "]">>
    /\ pc' = "build_sql"
    /\ UNCHANGED <<config, sql_call_statement, registry, dag_context>>

\* Line 26, over None: iterating it raises TypeError and the import of the
\* script ends there.
FormatKeyColumnsRaises ==
    /\ pc = "format_keys"
    /\ KEY_COLUMNS = None
    /\ error' = "TypeError"
    /\ pc' = "failed"
    /\ UNCHANGED <<config, key_columns_sql_array, sql_call_statement, registry, dag_context>>

\* Lines 32-40.
BuildCallStatement ==
    /\ pc = "build_sql"
    /\ sql_call_statement' =
           SqlCallStatement(GCP_PROJECT_ID, SP_DATASET, SP_NAME, TARGET_TABLE,
                            SOURCE_TABLE, key_columns_sql_array)
    /\ pc' = "enter_dag"
    /\ UNCHANGED <<config, key_columns_sql_array, registry, dag_context, error>>

\* Lines 53-59: the DAG is constructed and its with block entered.
EnterDag ==
    /\ pc = "enter_dag"
    /\ registry' = Append(registry, NewDag)
    /\ dag_context' = Append(dag_context, Len(registry) + 1)
    /\ pc' = "create_operator"
    /\ UNCHANGED <<config, key_columns_sql_array, sql_call_statement, error>>

\* Lines 60-69: the operator is constructed inside the with block.
CreateOperator ==
    /\ pc = "create_operator"
    /\ registry' = AddTask(registry, dag_context, NewOperator(sql_call_statement, BQ_LOCATION))
    /\ pc' = "exit_dag"
    /\ UNCHANGED <<config, key_columns_sql_array, sql_call_statement, dag_context, error>>

\* The end of the with block of lines 53-69.
ExitDag ==
    /\ pc = "exit_dag"
    /\ dag_context' = SubSeq(dag_context, 1, Len(dag_context) - 1)
    /\ pc' = "done"
    /\ UNCHANGED <<config, key_columns_sql_array, sql_call_statement, registry, error>>

Next ==
    \/ FormatKeyColumns
    \/ FormatKeyColumnsRaises
    \/ BuildCallStatement
    \/ EnterDag
    \/ CreateOperator
    \/ ExitDag

Spec == Init /\ [][Next]_vars

---------------------------------------------------------------------------
(* Reading a statement back.  The properties below do not compare text    *)
(* with the builder's own formula: they read the statement the way the     *)
(* warehouse does, line by line, telling string literals (between single   *)
(* quotes), quoted identifiers (between backticks) and comments (from two  *)
(* dashes to the end of the line) from the remaining code.                 *)

RECURSIVE SplitLines(_)
SplitLines(s) ==
    LET breaks == { i \in 1..Len(s) : s[i] = "\n" }
    IN  IF breaks = {} THEN <<s>>
        ELSE LET first == CHOOSE b \in breaks : \A c \in breaks : b <= c
             IN  <<SubSeq(s, 1, first - 1)>> \o SplitLines(SubSeq(s, first + 1, Len(s)))

EmptyScan ==
    [code |-> <<>>, strs |-> <<>>, idents |-> <<>>, commentAt |-> 0, open |-> FALSE]

\* The scan of line l from position i.  code is the text outside literals and
\* comments, with STR in the place of each string literal and ID in the place
\* of each quoted identifier; commentAt is where the comment starts (one past
\* the end when there is none); open tells that a literal or a quoted
\* identifier is still unclosed at the end of the line.
RECURSIVE ScanLine(_, _, _, _, _)
ScanLine(l, i, mode, cur, acc) ==
    IF i > Len(l)
    THEN [acc EXCEPT !.commentAt = Len(l) + 1, !.open = (mode # "code")]
    ELSE IF mode = "str"
    THEN IF l[i] = QUOTE
         THEN ScanLine(l, i + 1, "code", <<>>,
                       [acc EXCEPT !.strs = Append(@, cur), !.code = Append(@, "STR")])
         ELSE ScanLine(l, i + 1, "str", Append(cur, l[i]), acc)
    ELSE IF mode = "ident"
    THEN IF l[i] = BACKTICK
         THEN ScanLine(l, i + 1, "code", <<>>,
                       [acc EXCEPT !.idents = Append(@, cur), !.code = Append(@, "ID")])
         ELSE ScanLine(l, i + 1, "ident", Append(cur, l[i]), acc)
    ELSE IF l[i] = QUOTE THEN ScanLine(l, i + 1, "str", <<>>, acc)
    ELSE IF l[i] = BACKTICK THEN ScanLine(l, i + 1, "ident", <<>>, acc)
    ELSE IF l[i] = "-" /\ i < Len(l) /\ l[i + 1] = "-" THEN [acc EXCEPT !.commentAt = i]
    ELSE ScanLine(l, i + 1, "code", <<>>, [acc EXCEPT !.code = Append(@, l[i])])

Scan(l) == ScanLine(l, 1, "code", <<>>, EmptyScan)

IsNotSpace(c) == c # " "

\* The whole statement: ok when no line leaves a literal open, the string
\* literals and quoted identifiers in order, and the code without its spaces.
Lex(s) ==
    LET lines == SplitLines(s)
        scans == [k \in 1..Len(lines) |-> Scan(lines[k])]
    IN  [ok     |-> \A k \in 1..Len(lines) : ~scans[k].open,
         strs   |-> Flatten([k \in 1..Len(lines) |-> scans[k].strs]),
         idents |-> Flatten([k \in 1..Len(lines) |-> scans[k].idents]),
         code   |-> SelectSeq(Flatten([k \in 1..Len(lines) |-> scans[k].code]), IsNotSpace)]

RECURSIVE RStrip(_)
RStrip(s) ==
    IF s # <<>> /\ s[Len(s)] = " " THEN RStrip(SubSeq(s, 1, Len(s) - 1)) ELSE s

RECURSIVE LStrip(_)
LStrip(s) ==
    IF s # <<>> /\ s[1] = " " THEN LStrip(Tail(s)) ELSE s

\* A line without its comment and without the spaces before the comment.
CodePart(l) == RStrip(SubSeq(l, 1, Scan(l).commentAt - 1))

IsNotEmpty(l) == l # <<>>

\* The lines of a statement without comments, trailing spaces and empty lines.
CodeLines(s) ==
    LET lines == SplitLines(s)
    IN  SelectSeq([k \in 1..Len(lines) |-> CodePart(lines[k])], IsNotEmpty)

NonBlank(s) == \E i \in 1..Len(s) : s[i] # " "

Has(s, c) == \E i \in 1..Len(s) : s[i] = c

Count(s, c) == Cardinality({ i \in 1..Len(s) : s[i] = c })

\* Where word w occurs in s.
Occurrences(s, w) ==
    { i \in 1..(Len(s) - Len(w) + 1) : SubSeq(s, i, i + Len(w) - 1) = w }

\* A procedure path whose parts are identifiers: no backtick in them.
IdentifierPath ==
    /\ ~Has(GCP_PROJECT_ID, BACKTICK)
    /\ ~Has(SP_DATASET, BACKTICK)
    /\ ~Has(SP_NAME, BACKTICK)

\* An input that section 4.1 rejects as empty: no key column, or a required
\* string or key column that is empty once trimmed.
EmptyInput ==
    /\ KEY_COLUMNS # None
    /\ \/ KEY_COLUMNS = <<>>
       \/ ~NonBlank(GCP_PROJECT_ID)
       \/ ~NonBlank(SP_DATASET)
       \/ ~NonBlank(SP_NAME)
       \/ ~NonBlank(TARGET_TABLE)
       \/ ~NonBlank(SOURCE_TABLE)
       \/ \E k \in 1..Len(KEY_COLUMNS) : ~NonBlank(KEY_COLUMNS[k])

\* A single quote in a table name or in a key column.
QuoteInInput ==
    /\ KEY_COLUMNS # None
    /\ \/ Has(TARGET_TABLE, QUOTE)
       \/ Has(SOURCE_TABLE, QUOTE)
       \/ \E k \in 1..Len(KEY_COLUMNS) : Has(KEY_COLUMNS[k], QUOTE)

\* The inputs section 4.1 of the specification accepts: every string
\* non-empty after trimming, a procedure path of identifiers, at least one
\* key column, and no single quote in a table name or key column.
ValidInputs ==
    /\ KEY_COLUMNS # None
    /\ IdentifierPath
    /\ ~EmptyInput
    /\ ~QuoteInInput

KeysFormatted == pc \notin { "format_keys", "failed" }

StatementBuilt == pc \notin { "format_keys", "build_sql", "failed" }

---------------------------------------------------------------------------
(* The texts the specification quotes *)

Text_id == <<"i", "d">>

Text_region == <<"r", "e", "g", "i", "o", "n">>

Text_c == <<"c">>

Text_proj == <<"p", "r", "o", "j">>

Text_ds == <<"d", "s">>

Text_usp_generic_merge ==
    <<"u", "s", "p", "_", "g", "e", "n", "e", "r", "i", "c", "_", "m", "e", "r", "g", "e">>

Text_NULL == <<"N", "U", "L", "L">>

Text_CALL == <<"C", "A", "L", "L">>

Text_PARSE_JSON ==
    <<"P", "A", "R", "S", "E", "_", "J", "S", "O", "N", "(", QUOTE, "{", "}", QUOTE, ")">>

\* The rendering of one key column the specification gives: c.
Text_array_c == <<"[", QUOTE, "c", QUOTE, "]">>

\* The rendering of the keys id and region the specification gives.
Text_array_id_region ==
    <<"[", QUOTE, "i", "d", QUOTE, ",", " ", QUOTE, "r", "e", "g", "i", "o", "n", QUOTE, "]">>

\* The statement of the end-to-end example of the specification.
Text_example ==
    <<"C", "A", "L", "L", " ", BACKTICK, "p", "r", "o", "j", ".", "d", "s", ".", "u", "s", "p",
      "_", "g", "e", "n", "e", "r", "i", "c", "_", "m", "e", "r", "g", "e", BACKTICK, "(", "\n",
      " ", " ", " ", " ", QUOTE, "p", "r", "o", "j", ".", "d", "s", ".", "t", "a", "r", "g",
      "e", "t", QUOTE, ",", "\n", " ", " ", " ", " ", QUOTE, "p", "r", "o", "j", ".", "d", "s",
      ".", "s", "o", "u", "r", "c", "e", QUOTE, ",", "\n", " ", " ", " ", " ", "[", QUOTE, "i",
      "d", QUOTE, "]", ",", "\n", " ", " ", " ", " ", "N", "U", "L", "L", "\n", ")", ";">>

\* The inputs of the end-to-end example.
ExampleInputs ==
    /\ GCP_PROJECT_ID = Text_proj
    /\ SP_DATASET = Text_ds
    /\ SP_NAME = Text_usp_generic_merge
    /\ TARGET_TABLE = Text_proj \o <<".">> \o Text_ds \o <<".", "t", "a", "r", "g", "e", "t">>
    /\ SOURCE_TABLE = Text_proj \o <<".">> \o Text_ds \o <<".", "s", "o", "u", "r", "c", "e">>
    /\ KEY_COLUMNS = <<Text_id>>

\* The six lines of the form of section 4.1, with NULL for the options.
Section41Lines ==
    << Text_CALL \o <<" ", BACKTICK>> \o GCP_PROJECT_ID \o <<".">> \o SP_DATASET \o <<".">>
           \o SP_NAME \o <<BACKTICK, "(">>,
       <<" ", " ", " ", " ", QUOTE>> \o TARGET_TABLE \o <<QUOTE, ",">>,
       <<" ", " ", " ", " ", QUOTE>> \o SOURCE_TABLE \o <<QUOTE, ",">>,
       <<" ", " ", " ", " ">> \o key_columns_sql_array \o <<",">>,
       <<" ", " ", " ", " ">> \o Text_NULL,
       <<")", ";">> >>

\* The fourth argument as the warehouse reads it: the code of the line after
\* the three lines of the first three arguments.
FourthArgument == LStrip(CodePart(SplitLines(sql_call_statement)[6]))

---------------------------------------------------------------------------
(* Properties of the key-column rendering *)

QuoteFreeKeys ==
    /\ KEY_COLUMNS # None
    /\ KEY_COLUMNS # <<>>
    /\ \A k \in 1..Len(KEY_COLUMNS) : ~Has(KEY_COLUMNS[k], QUOTE)

\* C1: a non-empty list of key columns, none holding a single quote, renders
\* as an opening bracket, one single-quoted element per column in the order
\* of the list, neighbours separated by a comma and a space, and a closing
\* bracket: read back, the rendering holds exactly the columns of the list as
\* its string literals, no trailing comma, nothing reordered or dropped.
\* The list of the one column c renders as the text the specification gives,
\* and so does the list id, region.
C1_KeyColumnsRendering ==
    (KeysFormatted /\ QuoteFreeKeys) =>
        LET n == Len(KEY_COLUMNS)
            scan == Scan(key_columns_sql_array)
        IN  /\ ~scan.open
            /\ scan.commentAt = Len(key_columns_sql_array) + 1
            /\ scan.strs = KEY_COLUMNS
            /\ scan.idents = <<>>
            /\ Len(scan.code) = 3 * n
            /\ scan.code[1] = "["
            /\ scan.code[3 * n] = "]"
            /\ \A k \in 1..n : scan.code[3 * k - 1] = "STR"
            /\ \A k \in 1..(n - 1) : scan.code[3 * k] = "," /\ scan.code[3 * k + 1] = " "
            /\ (KEY_COLUMNS = <<Text_c>> => key_columns_sql_array = Text_array_c)
            /\ (KEY_COLUMNS = <<Text_id, Text_region>>
                    => key_columns_sql_array = Text_array_id_region)

\* C1, its case: the two keys id and region have been rendered.
C1_Witness ==
    /\ pc = "build_sql"
    /\ KEY_COLUMNS = <<Text_id, Text_region>>
    /\ key_columns_sql_array = Text_array_id_region

---------------------------------------------------------------------------
(* Properties of the statement *)

\* C2 as stated: for valid inputs with the options absent the built statement
\* is the text of the form of section 4.1 and nothing else.
C2_Original ==
    (StatementBuilt /\ ValidInputs /\ options = "absent")
        => sql_call_statement = Join(NL, Section41Lines)

\* C2 as amended: for valid inputs with the options absent the built statement
\* is the form of section 4.1 with comments and blank space added.  It has nine lines; the first and
\* the last are empty (the statement opens and closes with a line break); each
\* of the four argument lines ends in a comment; the line before the closing
\* one holds a comment only.  Without the comments, the spaces before them and
\* the empty lines, what is left is the six lines of section 4.1, whose fourth
\* argument is NULL; for the inputs of the end-to-end example that is the text
\* of the example, character for character.
C2_StatementIsSection41FormWithComments ==
    (StatementBuilt /\ ValidInputs /\ options = "absent") =>
        LET lines == SplitLines(sql_call_statement)
        IN  /\ Len(lines) = 9
            /\ lines[1] = <<>>
            /\ lines[9] = <<>>
            /\ \A k \in 3..7 : Scan(lines[k]).commentAt <= Len(lines[k])
            /\ Scan(lines[2]).commentAt = Len(lines[2]) + 1
            /\ Scan(lines[8]).commentAt = Len(lines[8]) + 1
            /\ CodePart(lines[7]) = <<>>
            /\ CodeLines(sql_call_statement) = Section41Lines
            /\ FourthArgument = Text_NULL
            /\ (ExampleInputs => Join(NL, CodeLines(sql_call_statement)) = Text_example)

\* C2, its case: the statement of the end-to-end example has been built.
C2_Witness ==
    /\ pc = "enter_dag"
    /\ ExampleInputs
    /\ ValidInputs
    /\ options = "absent"

\* C3 as stated: with an empty list of key columns, or a required string
\* empty after trimming, the build fails with InvalidArgument and no
\* statement is produced.  (Stated for inputs with no other defect.)
C3_Original ==
    (EmptyInput /\ ~QuoteInInput /\ IdentifierPath
        /\ pc \notin { "format_keys", "build_sql" }) =>
        /\ error = "InvalidArgument"
        /\ sql_call_statement = Undefined

\* The single quotes of a statement outside its comments.
QuotesInCode(s) ==
    LET lines == SplitLines(s)
        part == [k \in 1..Len(lines) |-> SubSeq(lines[k], 1, Scan(lines[k]).commentAt - 1)]
    IN  Count(Flatten(part), QUOTE)

\* C4 as stated: when an input holds a single quote, either the build is
\* rejected or no input ends its own string literal early: a statement that
\* is produced closes every literal it opens, its string literals are the two
\* table names and the key columns, and it holds two single quotes for each.
\* (Stated for inputs with no other defect.)
C4_Original ==
    (QuoteInInput /\ ~EmptyInput /\ IdentifierPath /\ StatementBuilt) =>
        \/ error # "none"
        \/ /\ Lex(sql_call_statement).ok
           /\ Lex(sql_call_statement).strs = <<TARGET_TABLE, SOURCE_TABLE>> \o KEY_COLUMNS
           /\ QuotesInCode(sql_call_statement) = 2 * (2 + Len(KEY_COLUMNS))

\* C5 as stated: the fourth argument of the statement built from valid
\* inputs is NULL when the options are absent and the PARSE_JSON call on the
\* empty object when they are an empty value.
C5_Original ==
    (StatementBuilt /\ ValidInputs) =>
        /\ options = "absent" => FourthArgument = Text_NULL
        /\ options = "empty_object" => FourthArgument = Text_PARSE_JSON

\* C6: for valid inputs the statement, read the way the warehouse reads it,
\* holds the keyword CALL once, one backtick-quoted identifier, which is
\* project.dataset.procedure, and one bracketed array whose elements are one
\* string literal per key column in the order of the list; text inside a
\* table name or a key column (the word CALL, a backtick, a bracket, two
\* dashes) stays inside its literal and counts for none of these.
C6_OneCallOneIdentifierOneArray ==
    (StatementBuilt /\ ValidInputs) =>
        LET lex == Lex(sql_call_statement)
            n == Len(KEY_COLUMNS)
            opens == { i \in 1..Len(lex.code) : lex.code[i] = "[" }
            closes == { i \in 1..Len(lex.code) : lex.code[i] = "]" }
        IN  /\ lex.ok
            /\ Cardinality(Occurrences(lex.code, Text_CALL)) = 1
            /\ lex.idents = <<GCP_PROJECT_ID \o <<".">> \o SP_DATASET \o <<".">> \o SP_NAME>>
            /\ Count(lex.code, "ID") = 1
            /\ Cardinality(opens) = 1
            /\ Cardinality(closes) = 1
            /\ \A o \in opens : \A c \in closes :
                   LET inner == SubSeq(lex.code, o + 1, c - 1)
                       before == Count(SubSeq(lex.code, 1, o - 1), "STR")
                   IN  /\ Len(inner) = 2 * n - 1
                       /\ \A j \in 1..Len(inner) :
                              inner[j] = IF j % 2 = 1 THEN "STR" ELSE ","
                       /\ Len(lex.strs) = before + n
                       /\ \A k \in 1..n : lex.strs[before + k] = KEY_COLUMNS[k]

\* C6, its case: a statement built from a table name and a key column that
\* hold the word CALL, a backtick, a bracket and two dashes.
C6_Witness ==
    /\ StatementBuilt
    /\ ValidInputs
    /\ Occurrences(TARGET_TABLE, Text_CALL) # {}
    /\ Has(TARGET_TABLE, BACKTICK)
    /\ Has(TARGET_TABLE, "[")
    /\ Len(KEY_COLUMNS) = 2
    /\ Occurrences(KEY_COLUMNS[1], Text_CALL) # {}
    /\ Has(KEY_COLUMNS[1], "]")
    /\ Has(KEY_COLUMNS[2], BACKTICK)

---------------------------------------------------------------------------
(* Properties of the registration *)

\* Every task of every workflow, in the order of registration.
AllTasks == Flatten([d \in 1..Len(registry) |-> registry[d].tasks])

TaskRegistered == AllTasks # <<>>

\* The SQL field of the task registered first.
StoredSql == AllTasks[1].sql

\* C7: the SQL stored on the registered task is the statement as built,
\* character for character; once built the statement is never changed, and
\* once the task is registered its stored SQL is never changed.
C7_StoredSqlIsBuiltStatement ==
    /\ [](TaskRegistered => StoredSql = sql_call_statement)
    /\ [][StatementBuilt => sql_call_statement' = sql_call_statement]_vars
    /\ [][TaskRegistered => (TaskRegistered' /\ StoredSql' = StoredSql)]_vars

\* C7, its case: the task is registered and the load went on after it.
C7_Witness ==
    /\ pc = "done"
    /\ TaskRegistered
    /\ StoredSql = sql_call_statement
    /\ StoredSql # StripWhitespace(StoredSql)

C9_TaskCarriesFiveValues ==
    \A t \in 1..Len(AllTasks) :
        LET task == AllTasks[t]
        IN  /\ DOMAIN task = { "task_id", "sql", "use_legacy_sql", "location", "gcp_conn_id" }
            /\ task.task_id # ""
            /\ task.sql # <<>>
            /\ task.sql # Undefined
            /\ task.location # ""
            /\ task.gcp_conn_id # ""
            /\ task.use_legacy_sql = FALSE

\* C9, its case: a task registered for the location EU.
C9_Witness ==
    /\ pc = "exit_dag"
    /\ TaskRegistered
    /\ AllTasks[1].location = "EU"

\* C10: the statement is built before anything is registered, and a failed
\* build ends the load: a workflow or a task is in the registry only when the
\* key columns and the statement have been built without error; once an error
\* is raised the registry is empty, the load has stopped, and both stay so.
\* The registrar checks nothing: whatever was built, the DAG is constructed
\* and the operator registered when their turn comes.
C10_BuildPrecedesRegistration ==
    /\ [](registry # <<>> =>
            /\ error = "none"
            /\ key_columns_sql_array # Undefined
            /\ sql_call_statement # Undefined)
    /\ [](error # "none" => (registry = <<>> /\ pc = "failed"))
    /\ [][error # "none" => (error' = error /\ registry' = registry)]_vars
    /\ [](pc = "enter_dag" => ENABLED EnterDag)
    /\ [](pc = "create_operator" => ENABLED CreateOperator)

\* C10, its case: the build has failed and nothing is registered.
C10_Witness ==
    /\ pc = "failed"
    /\ error = "TypeError"
    /\ registry = <<>>
    /\ sql_call_statement = Undefined

====
